---- MODULE Spec2Model ----
(***************************************************************************)
(* Model of csv_to_work_history_parser (src/src/main.rs).                  *)
(*                                                                         *)
(* Text is a sequence of one-character strings.  Three specifications      *)
(* share the variables:                                                    *)
(*   Spec      the pipeline process_work_history over a bounded input      *)
(*   SpecLoc   extract_location applied to every bounded address           *)
(*   SpecDate  parse_date applied to every text of a bounded grammar       *)
(***************************************************************************)
EXTENDS Integers, Sequences, FiniteSets, TLC

VARIABLES
    rows,            \* the data rows the csv reader yields, header excluded
    pc,              \* position in process_work_history / in the function call
    idx,             \* number of data rows the records() iterator has yielded
    work_histories,  \* Vec<WorkHistory>
    output_exists,   \* File::create(output_path) has succeeded
    output,          \* the characters written to the output file so far
    index,           \* enumerate() index of the block being written (0-based)
    line,            \* number of writeln! calls completed within that block
    outcome,         \* result of the run
    address,         \* argument of extract_location
    location,        \* value returned by extract_location
    date,            \* argument of parse_date
    parsed           \* value returned by parse_date

vars == <<rows, pc, idx, work_histories, output_exists, output, index, line,
          outcome, address, location, date, parsed>>

(***************************************************************************)
(* Bounds                                                                  *)
(***************************************************************************)
MaxRows == 3
MaxAddrLen == 6

(***************************************************************************)
(* Characters and str helpers                                              *)
(***************************************************************************)
Digits == <<"0", "1", "2", "3", "4", "5", "6", "7", "8", "9">>

is_ascii_digit(c) == \E i \in 1..10 : Digits[i] = c

DigitVal(c) == (CHOOSE i \in 1..10 : Digits[i] = c) - 1

\* char::is_whitespace: the 25 code points of the Unicode White_Space
\* property (str::trim, trim_start and split_whitespace all use it).
\* U+0009, U+000A, U+000C, U+000D and U+0020 are written with their escapes;
\* a control character without an escape, and a character the lexer does not
\* accept inside a string, is written by its name "U+XXXX" (U+00A0 and
\* U+1680, which the lexer accepts, are listed both ways)
is_whitespace(c) ==
    c \in {"\t", "\n", "U+000B", "\f", "\r", " ", "U+0085", " ", "U+00A0",
           " ", "U+1680", "U+2000", "U+2001", "U+2002", "U+2003", "U+2004",
           "U+2005", "U+2006", "U+2007", "U+2008", "U+2009", "U+200A",
           "U+2028", "U+2029", "U+202F", "U+205F", "U+3000"}

RECURSIVE trim_start(_)
trim_start(s) ==
    IF s = <<>> THEN <<>>
    ELSE IF is_whitespace(Head(s)) THEN trim_start(Tail(s))
    ELSE s

RECURSIVE trim_end(_)
trim_end(s) ==
    IF s = <<>> THEN <<>>
    ELSE IF is_whitespace(s[Len(s)]) THEN trim_end(SubSeq(s, 1, Len(s) - 1))
    ELSE s

\* str::trim
trim(s) == trim_end(trim_start(s))

\* address.matches(',').count()
RECURSIVE matches_count(_, _)
matches_count(s, c) ==
    IF s = <<>> THEN 0
    ELSE (IF Head(s) = c THEN 1 ELSE 0) + matches_count(Tail(s), c)

\* str::split(c): the segments between separators, empty segments kept;
\* `cur` is the segment being accumulated
RECURSIVE split_from(_, _, _)
split_from(s, c, cur) ==
    IF s = <<>> THEN <<cur>>
    ELSE IF Head(s) = c THEN <<cur>> \o split_from(Tail(s), c, <<>>)
    ELSE split_from(Tail(s), c, Append(cur, Head(s)))

split(s, c) == split_from(s, c, <<>>)

\* str::split_whitespace(): the non-empty maximal runs of non-whitespace
RECURSIVE split_whitespace_from(_, _)
split_whitespace_from(s, cur) ==
    IF s = <<>> THEN (IF cur = <<>> THEN <<>> ELSE <<cur>>)
    ELSE IF is_whitespace(Head(s))
         THEN (IF cur = <<>> THEN <<>> ELSE <<cur>>)
              \o split_whitespace_from(Tail(s), <<>>)
    ELSE split_whitespace_from(Tail(s), Append(cur, Head(s)))

split_whitespace(s) == split_whitespace_from(s, <<>>)

(***************************************************************************)
(* extract_location                                                        *)
(***************************************************************************)
\* parts.get(2).and_then(|s| s.trim().split_whitespace().next()).unwrap_or("")
state_part(parts) ==
    IF Len(parts) < 3 THEN <<>>
    ELSE LET tokens == split_whitespace(trim(parts[3]))
         IN  IF tokens = <<>> THEN <<>> ELSE tokens[1]

\* variant: the one-comma pass-through is missing
extract_location_no_passthrough(addr) ==
    LET parts == split(addr, ",")
    IN  CASE Len(parts) = 0 -> <<>>
          [] Len(parts) = 1 -> trim(parts[1])
          [] Len(parts) = 2 -> trim(parts[2])
          [] OTHER -> trim(parts[2]) \o <<",", " ">> \o state_part(parts)

\* variant: the whole third segment is kept as the state
extract_location_whole_state(addr) ==
    IF matches_count(addr, ",") = 1 THEN addr
    ELSE LET parts == split(addr, ",")
         IN  CASE Len(parts) = 0 -> <<>>
               [] Len(parts) = 1 -> trim(parts[1])
               [] Len(parts) = 2 -> trim(parts[2])
               [] OTHER -> trim(parts[2]) \o <<",", " ">> \o trim(parts[3])

extract_location(addr) ==
    IF matches_count(addr, ",") = 1 THEN addr
    ELSE LET parts == split(addr, ",")
         IN  CASE Len(parts) = 0 -> <<>>
               [] Len(parts) = 1 -> trim(parts[1])
               [] Len(parts) = 2 -> trim(parts[2])
               [] OTHER -> trim(parts[2]) \o <<",", " ">> \o state_part(parts)

(***************************************************************************)
(* chrono: NaiveDate and NaiveDate::parse_from_str(date, "%m/%d/%Y")       *)
(***************************************************************************)
NoDate == [year |-> 0, month |-> 0, day |-> 0]

is_leap_year(y) == (y % 4 = 0) /\ ((y % 100 # 0) \/ (y % 400 = 0))

days_in_month(y, m) ==
    CASE m \in {1, 3, 5, 7, 8, 10, 12} -> 31
      [] m \in {4, 6, 9, 11} -> 30
      [] OTHER -> IF is_leap_year(y) THEN 29 ELSE 28

\* NaiveDate::from_ymd_opt(y, m, d).is_some()
from_ymd_ok(y, m, d) ==
    /\ y >= -262143 /\ y <= 262142
    /\ m >= 1 /\ m <= 12
    /\ d >= 1 /\ d <= days_in_month(y, m)

ScanOk(rest, value) == [ok |-> TRUE, rest |-> rest, value |-> value, err |-> ""]
ScanErr(kind) == [ok |-> FALSE, rest |-> <<>>, value |-> 0, err |-> kind]

\* scan::number(s, min, max): between min and max leading ascii digits.
\* i digits have been consumed, n is their value.  The inputs hold at most
\* six digits in a row, so the checked i64 arithmetic never overflows.
RECURSIVE number_loop(_, _, _, _, _)
number_loop(s, i, n, min, max) ==
    IF i >= max \/ i >= Len(s) THEN ScanOk(SubSeq(s, i + 1, Len(s)), n)
    ELSE IF ~is_ascii_digit(s[i + 1])
         THEN (IF i < min THEN ScanErr("Invalid")
               ELSE ScanOk(SubSeq(s, i + 1, Len(s)), n))
    ELSE number_loop(s, i + 1, n * 10 + DigitVal(s[i + 1]), min, max)

number(s, min, max) ==
    IF Len(s) < min THEN ScanErr("TooShort") ELSE number_loop(s, 0, 0, min, max)

\* Item::Numeric, unsigned, of the given width (%m and %d: width 2)
numeric_unsigned(s, width) == number(trim_start(s), 1, width)

\* Item::Numeric(Year): width 4 when unsigned, any width after a sign
numeric_year(s) ==
    LET t == trim_start(s)
    IN  IF t # <<>> /\ Head(t) = "-"
        THEN LET r == number(Tail(t), 1, Len(t))
             IN  IF r.ok THEN ScanOk(r.rest, 0 - r.value) ELSE r
        ELSE IF t # <<>> /\ Head(t) = "+" THEN number(Tail(t), 1, Len(t))
        ELSE number(t, 1, 4)

\* Item::Literal("/")
literal_slash(s) ==
    IF Len(s) < 1 THEN ScanErr("TooShort")
    ELSE IF Head(s) # "/" THEN ScanErr("Invalid")
    ELSE ScanOk(Tail(s), 0)

ParseOk(d, text) == [ok |-> TRUE, date |-> d, text |-> text, cause |-> ""]
ParseErr(text, kind) == [ok |-> FALSE, date |-> NoDate, text |-> text, cause |-> kind]

\* parse_date: the items %m "/" %d "/" %Y in order (the setters of Parsed
\* reject a month outside 1..=12 and a day outside 1..=31 at once), then no
\* input may remain, then Parsed::to_naive_date; a failure is wrapped in the
\* context "Failed to parse date: {date}"
parse_date(text) ==
    LET m == numeric_unsigned(text, 2) IN
    IF ~m.ok THEN ParseErr(text, m.err) ELSE
    IF m.value < 1 \/ m.value > 12 THEN ParseErr(text, "OutOfRange") ELSE
    LET l1 == literal_slash(m.rest) IN
    IF ~l1.ok THEN ParseErr(text, l1.err) ELSE
    LET d == numeric_unsigned(l1.rest, 2) IN
    IF ~d.ok THEN ParseErr(text, d.err) ELSE
    IF d.value < 1 \/ d.value > 31 THEN ParseErr(text, "OutOfRange") ELSE
    LET l2 == literal_slash(d.rest) IN
    IF ~l2.ok THEN ParseErr(text, l2.err) ELSE
    LET y == numeric_year(l2.rest) IN
    IF ~y.ok THEN ParseErr(text, y.err) ELSE
    IF y.rest # <<>> THEN ParseErr(text, "TooLong") ELSE
    IF ~from_ymd_ok(y.value, m.value, d.value) THEN ParseErr(text, "OutOfRange")
    ELSE ParseOk([year |-> y.value, month |-> m.value, day |-> d.value], text)

\* Ord for NaiveDate: chronological
cmp(a, b) ==
    LET ka == <<a.year, a.month, a.day>>
        kb == <<b.year, b.month, b.day>>
        i == IF \E j \in 1..3 : ka[j] # kb[j]
             THEN CHOOSE j \in 1..3 : ka[j] # kb[j] /\ \A h \in 1..(j - 1) : ka[h] = kb[h]
             ELSE 0
    IN  IF i = 0 THEN "Equal" ELSE IF ka[i] < kb[i] THEN "Less" ELSE "Greater"

\* decimal digits of n >= 0
RECURSIVE to_string(_)
to_string(n) ==
    IF n < 10 THEN <<Digits[n + 1]>>
    ELSE to_string(n \div 10) \o <<Digits[(n % 10) + 1]>>

RECURSIVE pad_zero(_, _)
pad_zero(s, width) == IF Len(s) >= width THEN s ELSE pad_zero(<<"0">> \o s, width)

\* date.format("%m/%Y"): two-digit month, "/", the year: four digits, zero
\* padded, for 0..=9999 and signed otherwise
format_date(d) ==
    pad_zero(to_string(d.month), 2) \o <<"/">> \o
    (IF d.year >= 0 /\ d.year <= 9999 THEN pad_zero(to_string(d.year), 4)
     ELSE IF d.year < 0 THEN <<"-">> \o pad_zero(to_string(0 - d.year), 4)
     ELSE <<"+">> \o pad_zero(to_string(d.year), 4))

(***************************************************************************)
(* Values the variables of one specification hold in the other ones        *)
(***************************************************************************)
NotParsed == [ok |-> FALSE, date |-> NoDate, text |-> <<>>, cause |-> "not called"]

Outcome(kind, context, text, cause) ==
    [kind |-> kind, context |-> context, text |-> text, cause |-> cause]

Running == Outcome("Running", "", <<>>, "")

PipelineIdle ==
    /\ rows = <<>>
    /\ idx = 0
    /\ work_histories = <<>>
    /\ output_exists = FALSE
    /\ output = <<>>
    /\ index = 0
    /\ line = 0
    /\ outcome = Running

PipelineVars == <<rows, idx, work_histories, output_exists, output, index, line, outcome>>

(***************************************************************************)
(* process_work_history: decoding one record                               *)
(***************************************************************************)
NoEntry ==
    [company |-> <<>>, position |-> <<>>, start_date |-> NoDate,
     end_date |-> NoDate, location |-> <<>>, responsibilities |-> <<>>]

Decoded(entry) == [kind |-> "Ok", entry |-> entry, outcome |-> Running]

Failed(o) == [kind |-> o.kind, entry |-> NoEntry, outcome |-> o]

\* record[i] on a record without field i: StringRecord's Index unwraps None
IndexPanic == Outcome("Panic", "", <<>>, "record index out of range")

DateError(r) == Outcome("Err", "Failed to parse date", r.text, r.cause)

\* the WorkHistory literal: its fields are evaluated in the order written
\* (TLA+ sequences are 1-based: record[i] of the code is record[i + 1] here)
DecodeRecord(record) ==
    IF Len(record) < 1 THEN Failed(IndexPanic) ELSE
    IF Len(record) < 2 THEN Failed(IndexPanic) ELSE
    IF Len(record) < 3 THEN Failed(IndexPanic) ELSE
    LET start_date == parse_date(record[3]) IN
    IF ~start_date.ok THEN Failed(DateError(start_date)) ELSE
    IF Len(record) < 4 THEN Failed(IndexPanic) ELSE
    LET end_date == parse_date(record[4]) IN
    IF ~end_date.ok THEN Failed(DateError(end_date)) ELSE
    IF Len(record) < 5 THEN Failed(IndexPanic) ELSE
    IF Len(record) < 7 THEN Failed(IndexPanic) ELSE
    Decoded([company |-> record[1], position |-> record[2],
             start_date |-> start_date.date, end_date |-> end_date.date,
             location |-> extract_location(record[5]),
             responsibilities |-> record[7]])

(***************************************************************************)
(* process_work_history: sorting                                           *)
(***************************************************************************)
\* the closure |a, b| b.end_date.cmp(&a.end_date)
compare(a, b) == cmp(b.end_date, a.end_date)

\* variant: an element is placed before the elements equal to it
insert_before_equal(sorted, x) ==
    LET k == Cardinality({i \in 1..Len(sorted) : compare(sorted[i], x) = "Less"})
    IN  SubSeq(sorted, 1, k) \o <<x>> \o SubSeq(sorted, k + 1, Len(sorted))

\* slice::sort_by is stable: x goes after every element not greater than it
insert(sorted, x) ==
    LET k == Cardinality({i \in 1..Len(sorted) : compare(sorted[i], x) # "Greater"})
    IN  SubSeq(sorted, 1, k) \o <<x>> \o SubSeq(sorted, k + 1, Len(sorted))

RECURSIVE sort_from(_, _)
sort_from(rest, acc) ==
    IF rest = <<>> THEN acc ELSE sort_from(Tail(rest), insert(acc, Head(rest)))

sort_by(v) == sort_from(v, <<>>)

(***************************************************************************)
(* process_work_history: rendering.  The output file is a sequence of      *)
(* characters.  A writeln! writes the pieces of its format string and its  *)
(* arguments one after the other, each with its own write calls on the     *)
(* unbuffered File                                                         *)
(***************************************************************************)
\* the literal parts of the format strings
LabelWorkHistory ==
    <<"W", "o", "r", "k", " ", "H", "i", "s", "t", "o", "r", "y", " ">>

LabelCompany ==
    <<"C", "o", "m", "p", "a", "n", "y", ":", " ">>

LabelPosition ==
    <<"P", "o", "s", "i", "t", "i", "o", "n", ":", " ">>

LabelStartDate ==
    <<"S", "t", "a", "r", "t", " ", "D", "a", "t", "e", ":", " ">>

LabelEndDate ==
    <<"E", "n", "d", " ", "D", "a", "t", "e", ":", " ">>

LabelLocation ==
    <<"L", "o", "c", "a", "t", "i", "o", "n", ":", " ">>

LabelResponsibilities ==
    <<"R", "e", "s", "p", "o", "n", "s", "i", "b", "i", "l", "i", "t", "i",
      "e", "s", ":", " ">>

\* the newline a writeln! ends with
NL == <<"\n">>

\* variant: blocks are numbered by the 0-based index
render_block_from_zero(i, history) ==
    << <<LabelWorkHistory, to_string(i), NL>>,
       <<LabelCompany, history.company, NL>>,
       <<LabelPosition, history.position, NL>>,
       <<LabelStartDate, format_date(history.start_date), NL>>,
       <<LabelEndDate, format_date(history.end_date), NL>>,
       <<LabelLocation, history.location, NL>>,
       <<LabelResponsibilities, history.responsibilities, NL>>,
       <<NL>> >>

\* the writeln! calls of one iteration, i the enumerate() index: for each
\* the pieces it writes, in order
render_block(i, history) ==
    << <<LabelWorkHistory, to_string(i + 1), NL>>,
       <<LabelCompany, history.company, NL>>,
       <<LabelPosition, history.position, NL>>,
       <<LabelStartDate, format_date(history.start_date), NL>>,
       <<LabelEndDate, format_date(history.end_date), NL>>,
       <<LabelLocation, history.location, NL>>,
       <<LabelResponsibilities, history.responsibilities, NL>>,
       <<NL>> >>

\* the characters of the pieces, in order
RECURSIVE concat(_)
concat(pieces) == IF pieces = <<>> THEN <<>> ELSE Head(pieces) \o concat(Tail(pieces))

(***************************************************************************)
(* Spec: the inputs of the pipeline                                        *)
(***************************************************************************)
Start2019 == <<"0", "1", "/", "0", "1", "/", "2", "0", "1", "9">>
End2020 == <<"0", "1", "/", "0", "1", "/", "2", "0", "2", "0">>
End2022 == <<"0", "6", "/", "1", "5", "/", "2", "0", "2", "2">>
BadDate == <<"1", "3", "/", "4", "0", "/", "2", "0", "2", "0">>
OtherBadDate == <<"2", "0", "2", "0", "-", "0", "1", "-", "0", "1">>
Addr == <<"s", ",", " ", "c", ",", " ", "t", " ", "z">>

FieldsA == <<<<"A">>, <<"p">>, Start2019, End2020, Addr, <<"v">>, <<"r">>, <<"q">>>>
FieldsB == <<<<"B">>, <<"p">>, Start2019, End2022, <<"c", ",", " ", "t">>, <<"v">>, <<"r">>>>
FieldsC == <<<<"C">>, <<>>, End2020, End2020, <<"\r", "h", "\f">>, <<>>, <<"r", ",", "\n", "r">>>>
FieldsBadStart == <<<<"D">>, <<"p">>, BadDate, OtherBadDate, Addr, <<"v">>, <<"r">>>>
FieldsBadEnd == <<<<"E">>, <<"p">>, Start2019, BadDate, Addr, <<"v">>, <<"r">>>>

Readable(fields) == [ok |-> TRUE, fields |-> fields]

\* a row the csv reader fails on (e.g. invalid UTF-8)
Unreadable == [ok |-> FALSE, fields |-> <<>>]

RowTemplates ==
    {Readable(f) : f \in {FieldsA, FieldsB, FieldsC, FieldsBadStart, FieldsBadEnd}}
    \cup {Readable(SubSeq(FieldsA, 1, n)) : n \in 1..6}
    \cup {Readable(SubSeq(FieldsBadStart, 1, 5)), Readable(SubSeq(FieldsBadEnd, 1, 4))}
    \cup {Unreadable}

Inputs == UNION {[1..n -> RowTemplates] : n \in 0..MaxRows}

(***************************************************************************)
(* Spec: process_work_history                                              *)
(***************************************************************************)
FunctionsIdle ==
    /\ address = <<>>
    /\ location = <<>>
    /\ date = <<>>
    /\ parsed = NotParsed

FunctionVars == <<address, location, date, parsed>>

Init ==
    /\ rows \in Inputs
    /\ pc = "open"
    /\ idx = 0
    /\ work_histories = <<>>
    /\ output_exists = FALSE
    /\ output = <<>>
    /\ index = 0
    /\ line = 0
    /\ outcome = Running
    /\ FunctionsIdle

Fail(o) ==
    /\ outcome' = o
    /\ pc' = IF o.kind = "Panic" THEN "panicked" ELSE "failed"

\* File::open(input_path).with_context(..)?
OpenInput ==
    /\ pc = "open"
    /\ \/ /\ pc' = "read"
          /\ UNCHANGED outcome
       \/ Fail(Outcome("Err", "Failed to open input file", <<>>, "io"))
    /\ UNCHANGED <<rows, idx, work_histories, output_exists, output, index, line,
                   FunctionVars>>

\* variant: a row that fails to decode is skipped
ReadRecordSkipping ==
    /\ pc = "read"
    /\ idx < Len(rows)
    /\ idx' = idx + 1
    /\ LET row == rows[idx + 1]
           r == DecodeRecord(row.fields)
       IN  IF row.ok /\ r.kind = "Ok"
           THEN work_histories' = Append(work_histories, r.entry)
           ELSE UNCHANGED work_histories
    /\ UNCHANGED <<rows, pc, outcome, output_exists, output, index, line, FunctionVars>>

\* one iteration of `for result in rdr.records()`
ReadRecord ==
    /\ pc = "read"
    /\ idx < Len(rows)
    /\ idx' = idx + 1
    /\ LET row == rows[idx + 1]
           r == DecodeRecord(row.fields)
       IN  IF ~row.ok
           THEN /\ Fail(Outcome("Err", "Failed to read CSV record", <<>>, "csv"))
                /\ UNCHANGED work_histories
           ELSE IF r.kind # "Ok"
           THEN /\ Fail(r.outcome)
                /\ UNCHANGED work_histories
           ELSE /\ work_histories' = Append(work_histories, r.entry)
                /\ UNCHANGED <<pc, outcome>>
    /\ UNCHANGED <<rows, output_exists, output, index, line, FunctionVars>>

\* the iterator is exhausted; work_histories.sort_by(..)
SortHistories ==
    /\ pc = "read"
    /\ idx = Len(rows)
    /\ work_histories' = sort_by(work_histories)
    /\ pc' = "create"
    /\ UNCHANGED <<rows, idx, output_exists, output, index, line, outcome, FunctionVars>>

\* File::create(output_path).with_context(..)?
CreateOutput ==
    /\ pc = "create"
    /\ \/ /\ output_exists' = TRUE
          /\ output' = <<>>
          /\ pc' = "write"
          /\ UNCHANGED outcome
       \/ /\ Fail(Outcome("Err", "Failed to create output file", <<>>, "io"))
          /\ UNCHANGED <<output_exists, output>>
    /\ UNCHANGED <<rows, idx, work_histories, index, line, FunctionVars>>

\* one writeln!(output, ..)? of the block of work_histories[index].  When all
\* its write calls succeed the whole line is in the file.  A write call can
\* fail or be cut short (a full device, a file size limit), after which the
\* next one fails: the writeln! then returns the error and the file keeps
\* what was written of the line, any proper prefix of it, after the lines
\* written before
WriteLine ==
    /\ pc = "write"
    /\ index < Len(work_histories)
    /\ LET block == render_block(index, work_histories[index + 1])
           text == concat(block[line + 1])
       IN  \/ /\ output' = output \o text
              /\ IF line + 1 = Len(block)
                 THEN index' = index + 1 /\ line' = 0
                 ELSE index' = index /\ line' = line + 1
              /\ UNCHANGED <<pc, outcome>>
           \/ /\ \E n \in 0..(Len(text) - 1) : output' = output \o SubSeq(text, 1, n)
              /\ Fail(Outcome("Err", "", <<>>, "io"))
              /\ UNCHANGED <<index, line>>
    /\ UNCHANGED <<rows, idx, work_histories, output_exists, FunctionVars>>

\* Ok(())
Finish ==
    /\ pc = "write"
    /\ index = Len(work_histories)
    /\ outcome' = Outcome("Ok", "", <<>>, "")
    /\ pc' = "done"
    /\ UNCHANGED <<rows, idx, work_histories, output_exists, output, index, line,
                   FunctionVars>>

Next ==
    \/ OpenInput
    \/ ReadRecord
    \/ SortHistories
    \/ CreateOutput
    \/ WriteLine
    \/ Finish

Spec == Init /\ [][Next]_vars

(***************************************************************************)
(* SpecLoc: extract_location on every address of at most MaxAddrLen        *)
(* characters over AddrChars                                               *)
(***************************************************************************)
AddrChars == {",", " ", "\r", "a", "b"}

Addresses == UNION {[1..n -> AddrChars] : n \in 0..MaxAddrLen}

InitLoc ==
    /\ PipelineIdle
    /\ pc = "call"
    /\ address \in Addresses
    /\ location = <<>>
    /\ date = <<>>
    /\ parsed = NotParsed

CallExtractLocation ==
    /\ pc = "call"
    /\ location' = extract_location(address)
    /\ pc' = "return"
    /\ UNCHANGED <<PipelineVars, address, date, parsed>>

NextLoc == CallExtractLocation

SpecLoc == InitLoc /\ [][NextLoc]_vars

(***************************************************************************)
(* SpecDate: parse_date on every text lead month sep day sep year trail    *)
(***************************************************************************)
Leads == {<<>>, <<" ">>, <<"\r">>, <<"x">>}

MonthTexts == {<<"0", "1">>, <<"1">>, <<"0", "2">>, <<"1", "2">>, <<"1", "3">>,
               <<"0", "0">>, <<"a">>, <<>>, <<" ", "2">>, <<"0", "0", "2">>}

Seps == {<<"/">>, <<>>, <<"-">>}

DayTexts == {<<"0", "1">>, <<"1">>, <<"2", "9">>, <<"3", "0">>, <<"3", "1">>,
             <<"4", "0">>, <<"0">>, <<"1", "x">>, <<" ", "5">>, <<"U+2003", "\f", "5">>}

YearTexts == {<<"2", "0", "2", "0">>, <<"2", "0", "2", "1">>, <<"1", "9", "0", "0">>,
              <<"2", "0", "0", "0">>, <<"2", "0">>, <<"+", "2", "0", "2", "0">>,
              <<"-", "1">>, <<"2", "0", "2", "0", "1">>, <<"y">>, <<>>,
              <<" ", "1", "9", "9", "9">>, <<"0">>,
              <<"+", "2", "6", "2", "1", "4", "2">>, <<"+", "2", "6", "2", "1", "4", "3">>,
              <<"-", "2", "6", "2", "1", "4", "3">>, <<"-", "2", "6", "2", "1", "4", "4">>}

Trails == {<<>>, <<" ">>, <<"x">>}

DateTexts ==
    {l \o m \o s1 \o d \o s2 \o y \o t :
        l \in Leads, m \in MonthTexts, s1 \in Seps, d \in DayTexts,
        s2 \in {<<"/">>, <<>>}, y \in YearTexts, t \in Trails}

InitDate ==
    /\ PipelineIdle
    /\ pc = "call"
    /\ date \in DateTexts
    /\ parsed = NotParsed
    /\ address = <<>>
    /\ location = <<>>

CallParseDate ==
    /\ pc = "call"
    /\ parsed' = parse_date(date)
    /\ pc' = "return"
    /\ UNCHANGED <<PipelineVars, address, location, date>>

NextDate == CallParseDate

SpecDate == InitDate /\ [][NextDate]_vars

(***************************************************************************)
(* Reference descriptions of text, by position                             *)
(***************************************************************************)
Positions(s, c) == {i \in 1..Len(s) : s[i] = c}

\* position of the n-th occurrence of c in s
Nth(s, c, n) ==
    CHOOSE i \in Positions(s, c) : Cardinality({j \in Positions(s, c) : j < i}) = n - 1

NonWs(s) == {i \in 1..Len(s) : ~is_whitespace(s[i])}

Min(S) == CHOOSE x \in S : \A y \in S : x <= y
Max(S) == CHOOSE x \in S : \A y \in S : x >= y

\* s without its leading and trailing whitespace
Trimmed(s) == IF NonWs(s) = {} THEN <<>> ELSE SubSeq(s, Min(NonWs(s)), Max(NonWs(s)))

\* the first maximal run of non-whitespace of s, empty when there is none
FirstToken(s) ==
    IF NonWs(s) = {} THEN <<>>
    ELSE LET i == Min(NonWs(s))
             stops == {j \in (i + 1)..(Len(s) + 1) : j = Len(s) + 1 \/ is_whitespace(s[j])}
         IN  SubSeq(s, i, Min(stops) - 1)

NumCommas(a) == Cardinality(Positions(a, ","))

\* for an address with two commas or more: the text between the first two
\* commas, and the text from the second comma to the third one or the end
Segment1(a) == SubSeq(a, Nth(a, ",", 1) + 1, Nth(a, ",", 2) - 1)
Segment2(a) ==
    SubSeq(a, Nth(a, ",", 2) + 1,
           IF NumCommas(a) >= 3 THEN Nth(a, ",", 3) - 1 ELSE Len(a))

City(a) == Trimmed(Segment1(a))
State(a) == FirstToken(Segment2(a))

(***************************************************************************)
(* Claims about extract_location (SpecLoc)                                 *)
(***************************************************************************)
\* C6: an address with two or more commas, a non-empty city (trimmed segment
\* 1) and a state (first whitespace-delimited token of segment 2) is returned
\* as exactly "city, state"; segment 0, the rest of segment 2 and the
\* segments from index 3 on are discarded.
C6_CityState ==
    (pc = "return" /\ NumCommas(address) >= 2
        /\ City(address) # <<>> /\ State(address) # <<>>)
    => location = City(address) \o <<",", " ">> \o State(address)

C6_Witness ==
    /\ pc = "return"
    /\ address = <<"a", ",", "\r", "b", ",", "a">>
    /\ location = <<"b", ",", " ", "a">>

\* C7 (as claimed): an address with two or more commas, a non-empty city and
\* an empty state is returned as just the city, with no trailing comma or
\* space.
C7_CityOnly ==
    (pc = "return" /\ NumCommas(address) >= 2
        /\ City(address) # <<>> /\ State(address) = <<>>)
    => location = City(address)

\* C8: an address with exactly one comma is returned unchanged, and an
\* address without a comma is returned trimmed of leading and trailing
\* whitespace.
C8_AtMostOneComma ==
    (pc = "return" /\ NumCommas(address) <= 1)
    => /\ NumCommas(address) = 1 => location = address
       /\ NumCommas(address) = 0 => location = Trimmed(address)

C8_Witness ==
    /\ pc = "return"
    /\ address = <<"\r", "a", ",", " ", "b", " ">>
    /\ location = address

(***************************************************************************)
(* Claims about parse_date (SpecDate)                                      *)
(***************************************************************************)
\* value of a digit string
RECURSIVE NumVal(_)
NumVal(s) ==
    IF s = <<>> THEN 0 ELSE NumVal(SubSeq(s, 1, Len(s) - 1)) * 10 + DigitVal(s[Len(s)])

LastDay(y, m) ==
    IF m = 2 THEN (IF y % 400 = 0 \/ (y % 4 = 0 /\ y % 100 # 0) THEN 29 ELSE 28)
    ELSE IF m \in {4, 6, 9, 11} THEN 30 ELSE 31

\* a calendar date within the years NaiveDate can hold
ValidDate(y, m, d) ==
    /\ y >= -262143 /\ y <= 262142
    /\ m \in 1..12
    /\ d \in 1..LastDay(y, m)

\* exactly two-digit month, "/", two-digit day, "/", four-digit year
IsMMDDYYYY(t) ==
    /\ Len(t) = 10
    /\ t[3] = "/" /\ t[6] = "/"
    /\ \A i \in {1, 2, 4, 5, 7, 8, 9, 10} : is_ascii_digit(t[i])

StrictlyValid(t) ==
    /\ IsMMDDYYYY(t)
    /\ ValidDate(NumVal(SubSeq(t, 7, 10)), NumVal(SubSeq(t, 1, 2)), NumVal(SubSeq(t, 4, 5)))

\* C4 (as claimed): parse_date accepts a text if and only if it is exactly a
\* two-digit month, "/", a two-digit day, "/" and a four-digit year denoting
\* a valid calendar date.
C4_StrictOnly == pc = "return" => (parsed.ok <=> StrictlyValid(date))

(***************************************************************************)
(* Reference descriptions of a run, from its input                         *)
(***************************************************************************)
\* what decoding the row alone leads to
RowOutcome(row) ==
    IF ~row.ok THEN Outcome("Err", "Failed to read CSV record", <<>>, "csv")
    ELSE DecodeRecord(row.fields).outcome

RowFails(row) == RowOutcome(row).kind # "Running"

Entry(row) == DecodeRecord(row.fields).entry

\* ordinal of the first data row whose decoding fails, 0 when none does
FirstFail(rs) ==
    IF \E i \in 1..Len(rs) : RowFails(rs[i])
    THEN Min({i \in 1..Len(rs) : RowFails(rs[i])})
    ELSE 0

\* the date field of the row that is the first to fail to parse
FailingRole(row) ==
    IF ~row.ok \/ Len(row.fields) < 3 THEN "none"
    ELSE IF ~parse_date(row.fields[3]).ok THEN "start"
    ELSE IF Len(row.fields) < 4 THEN "none"
    ELSE IF ~parse_date(row.fields[4]).ok THEN "end"
    ELSE "none"

OffendingText(row) ==
    IF FailingRole(row) = "start" THEN row.fields[3] ELSE row.fields[4]

\* the failure happened while the rows were being read and decoded
DecodeFailure(o) ==
    \/ o.kind = "Panic"
    \/ o.kind = "Err" /\ o.context \in {"Failed to read CSV record", "Failed to parse date"}

\* MM/YYYY of a date of the years 0..9999
MonthYear(d) ==
    <<Digits[(d.month \div 10) + 1], Digits[(d.month % 10) + 1], "/",
      Digits[(d.year \div 1000) + 1], Digits[((d.year \div 100) % 10) + 1],
      Digits[((d.year \div 10) % 10) + 1], Digits[(d.year % 10) + 1]>>

Injections(n) ==
    {p \in [1..n -> 1..n] : \A i, j \in 1..n : p[i] = p[j] => i = j}

(***************************************************************************)
(* Claims about process_work_history (Spec)                                *)
(***************************************************************************)
\* C1: once sorted, the entries are a permutation of the decoded entries of
\* the rows (none lost, duplicated or altered), end_date is non-increasing
\* from first to last, and entries with equal end_date are in the order of
\* their rows.
C1_StableDescending ==
    pc \in {"create", "write", "done"} =>
        \E p \in Injections(Len(rows)) :
            /\ Len(work_histories) = Len(rows)
            /\ \A k \in 1..Len(rows) : work_histories[k] = Entry(rows[p[k]])
            /\ \A k, l \in 1..Len(rows) :
                  k < l =>
                    /\ cmp(work_histories[k].end_date, work_histories[l].end_date) # "Less"
                    /\ cmp(work_histories[k].end_date, work_histories[l].end_date) = "Equal"
                          => p[k] < p[l]

C1_Witness ==
    /\ pc = "create"
    /\ rows = <<Readable(FieldsA), Readable(FieldsB), Readable(FieldsC)>>
    /\ work_histories = <<Entry(rows[2]), Entry(rows[1]), Entry(rows[3])>>

\* C2 (as claimed): in a run that ends in an error, at whatever stage,
\* nothing has been written to the output destination.
C2_NoPartialOutput ==
    outcome.kind \in {"Err", "Panic"} => output = <<>>

\* C3 (as claimed): a data row with fewer than 7 fields makes the run fail
\* with a MalformedRecordError that names the ordinal of the row, and nothing
\* is written.  An error that names the ordinal of the row differs from the
\* one of the same input with one more good row in front.
C3_MalformedRecord ==
    (idx >= 1 /\ rows[idx].ok /\ Len(rows[idx].fields) < 7) =>
        /\ outcome.kind = "Err"
        /\ outcome.cause = "MalformedRecord"
        /\ outcome # RowOutcome((<<Readable(FieldsB)>> \o rows)[idx + 1])
        /\ ~output_exists
        /\ output = <<>>

\* C5 (as claimed): when the start or end date of a row fails to parse, the
\* run fails with an error that carries the offending text, the role (start
\* or end) of the field and the row.  An error that carries the role is not
\* the error of any row failing in the other role; one that carries the row
\* is not the error of the same failure one row further down.
C5_TextRoleRow ==
    (idx >= 1 /\ FailingRole(rows[idx]) # "none") =>
        /\ outcome.kind = "Err"
        /\ outcome.text = OffendingText(rows[idx])
        /\ \A r \in RowTemplates :
              RowOutcome(r) = outcome => FailingRole(r) = FailingRole(rows[idx])
        /\ outcome # RowOutcome((<<Readable(FieldsB)>> \o rows)[idx + 1])

\* the text of block k for entry h: eight lines, each ended by a newline,
\* the first "Work History k" and the last one empty
ExpectedBlock(k, h) ==
    LabelWorkHistory \o <<Digits[k + 1], "\n">>
    \o LabelCompany \o h.company \o <<"\n">>
    \o LabelPosition \o h.position \o <<"\n">>
    \o LabelStartDate \o MonthYear(h.start_date) \o <<"\n">>
    \o LabelEndDate \o MonthYear(h.end_date) \o <<"\n">>
    \o LabelLocation \o h.location \o <<"\n">>
    \o LabelResponsibilities \o h.responsibilities \o <<"\n">>
    \o <<"\n">>

\* number of characters of the blocks 1..k
RECURSIVE BlocksLen(_, _)
BlocksLen(hs, k) ==
    IF k = 0 THEN 0 ELSE BlocksLen(hs, k - 1) + Len(ExpectedBlock(k, hs[k]))

\* C9: after a successful run over n rows the output is exactly n blocks in
\* sorted order, one after the other; block k starts with the line
\* "Work History k", holds the fields of the k-th sorted entry and ends with
\* one blank line; nothing follows the last blank line.
C9_Blocks ==
    pc = "done" =>
        /\ outcome.kind = "Ok"
        /\ Len(work_histories) = Len(rows)
        /\ Len(output) = BlocksLen(work_histories, Len(rows))
        /\ \A k \in 1..Len(rows) :
              SubSeq(output, BlocksLen(work_histories, k - 1) + 1,
                     BlocksLen(work_histories, k))
                 = ExpectedBlock(k, work_histories[k])

C9_Witness ==
    /\ pc = "done"
    /\ Len(rows) = 3
    /\ LET start == BlocksLen(work_histories, 2)
       IN  SubSeq(output, start + 1, start + Len(LabelWorkHistory) + 2)
              = LabelWorkHistory \o <<"3", "\n">>
    /\ SubSeq(output, Len(output) - 1, Len(output)) = <<"\n", "\n">>

\* C10: rows are decoded in source order, each once, and decoding is
\* fail-fast: while reading, the entries are those of the rows read so far
\* and none of them fails; a decoding failure is the failure of the first
\* failing row i (the start date's before the end date's), with rows 1..i-1
\* decoded and no row after i read; a run that gets past reading had no
\* failing row.
C10_FailFast ==
    /\ pc = "read" =>
          /\ FirstFail(rows) = 0 \/ idx < FirstFail(rows)
          /\ work_histories = [j \in 1..idx |-> Entry(rows[j])]
    /\ DecodeFailure(outcome) =>
          /\ idx = FirstFail(rows)
          /\ work_histories = [j \in 1..(idx - 1) |-> Entry(rows[j])]
          /\ outcome = RowOutcome(rows[idx])
          /\ FailingRole(rows[idx]) = "start" => outcome.text = rows[idx].fields[3]
    /\ pc \in {"create", "write", "done"} => FirstFail(rows) = 0 /\ idx = Len(rows)

C10_Witness ==
    /\ pc = "failed"
    /\ Len(rows) = 3
    /\ idx = 2
    /\ FirstFail(rows) = 2
    /\ RowFails(rows[3])
    /\ Len(work_histories) = 1
    /\ rows[2] = Readable(FieldsBadStart)
    /\ outcome.text = BadDate

====
